---- MODULE Spec2Model ----
(***************************************************************************)
(* A model of the yatube blogging application (posts app): the entity     *)
(* store (users, groups, posts, comments, follow rows), the request       *)
(* handlers of posts/views.py, Django's Paginator as the views call it,   *)
(* the on_delete rules of posts/models.py and the list-page cache in      *)
(* front of the global index.                                             *)
(***************************************************************************)
EXTENDS Integers, Sequences, FiniteSets, Bags, TLC

\* ------------------------------------------------------------------ bounds
MaxPosts == 2
MaxTime == 1
MaxComments == 1
MaxFeed == 21
NumWorkers == 2

\* ------------------------------------------------------- program constants
PageSize == 10
CacheTTL == 1

\* ------------------------------------------------------------------ domains
None == "None"
Anon == "anon"
Users == {"u1", "u2"}
Groups == {"g1"}
Texts == {"a", "b"}
NoData == [method |-> "GET", text |-> "", group |-> None, image |-> None, author |-> None]

VARIABLES users, groups, posts, comments, follows, nextPostId, now, cache, req, resp,
          workers

vars == <<users, groups, posts, comments, follows, nextPostId, now, cache, req, resp,
          workers>>

store == <<users, groups, posts, comments, follows, nextPostId>>

\* ------------------------------------------------------------ HTTP plumbing
NoLocation == [name |-> "-", username |-> "-", post_id |-> 0, next |-> "-"]

NoContext == [count |-> 0, num_pages |-> 0, number |-> 0, object_list |-> <<>>,
              page |-> <<>>, following |-> FALSE, post |-> 0]

NoPage == [kind |-> "absent", n |-> 0]

\* What the state keeps of the request being answered: the view resolved, the
\* requester and the URL arguments (the submitted form data is not kept).
Request(view, user, username, post_id, slug, page) ==
  [view |-> view, user |-> user, username |-> username, post_id |-> post_id,
   slug |-> slug, page |-> page]

\* The rendering service: the document is a function of the template and of
\* what the context puts on the page.
Render(template, ctx) ==
  <<template, ctx.page, ctx.number, ctx.num_pages, ctx.following, ctx.post>>

HttpRender(template, ctx) ==
  [status |-> 200, location |-> NoLocation, template |-> template, ctx |-> ctx,
   content |-> Render(template, ctx)]

HttpRedirect(name, username, post_id) ==
  [status |-> 302,
   location |-> [name |-> name, username |-> username, post_id |-> post_id, next |-> "-"],
   template |-> "-", ctx |-> NoContext, content |-> <<>>]

Http404 ==
  [status |-> 404, location |-> NoLocation, template |-> "misc/404.html",
   ctx |-> NoContext, content |-> <<"misc/404.html">>]

is_authenticated(user) == user # Anon

\* @login_required: an anonymous requester is sent to the login entry point with
\* the requested path as ?next=.
LoginRedirect(view) ==
  [status |-> 302,
   location |-> [name |-> "login", username |-> "-", post_id |-> 0, next |-> view],
   template |-> "-", ctx |-> NoContext, content |-> <<>>]

\* ---------------------------------------------------------------- Paginator
\* Paginator.num_pages: ceil(max(1, count) / per_page), with no orphans and
\* allow_empty_first_page.
num_pages(count) ==
  IF count = 0 THEN 1 ELSE (count + PageSize - 1) \div PageSize

\* Paginator.validate_number: the page number, or the exception raised.
validate_number(p, count) ==
  IF p.kind # "int" THEN "PageNotAnInteger"
  ELSE IF p.n < 1 THEN "EmptyPage"
  ELSE IF p.n > num_pages(count) THEN "EmptyPage"
  ELSE "ok"

\* Every number out of range served by the first page.
get_page_first(p, count) ==
  IF validate_number(p, count) = "ok" THEN p.n ELSE 1

\* Paginator.get_page: the number of the page served.
get_page(p, count) ==
  LET v == validate_number(p, count) IN
    IF v = "PageNotAnInteger" THEN 1
    ELSE IF v = "EmptyPage" THEN num_pages(count)
    ELSE p.n

Min(a, b) == IF a < b THEN a ELSE b

\* Paginator.page: object_list[bottom:top].
page_items(object_list, number) ==
  LET bottom == (number - 1) * PageSize
      top == Min(bottom + PageSize, Len(object_list))
  IN SubSeq(object_list, bottom + 1, top)

\* The context the feed views build: Paginator(post_list, 10).get_page(page).
Paginate(object_list, p) ==
  LET count == Len(object_list)
      number == get_page(p, count)
  IN [count |-> count, num_pages |-> num_pages(count), number |-> number,
      object_list |-> object_list, page |-> page_items(object_list, number),
      following |-> FALSE, post |-> 0]

\* ------------------------------------------------------------ Entity store
\* Post.Meta.ordering = ['-pub_date']: ORDER BY pub_date DESC and nothing else,
\* so rows of equal pub_date come back in whatever order the database picks.
RECURSIVE Orderings(_)
Orderings(S) ==
  IF S = {} THEN {<<>>}
  ELSE UNION {{<<p>> \o t : t \in Orderings(S \ {p})} :
              p \in {q \in S : \A r \in S : q.pub_date >= r.pub_date}}

\* Follow rows as the views filter them.
FollowRows(user, author) == CopiesIn(<<user, author>>, follows)

\* related_name 'follower': the Follow rows whose user is u.
follower(u) == {f \in BagToSet(follows) : f[1] = u}

\* related_name 'following': the Follow rows whose author is u.
following(u) == {f \in BagToSet(follows) : f[2] = u}

\* ------------------------------------------------------------------ forms
\* PostForm(request.POST or None, files=request.FILES or None).is_valid()
PostFormValid(data) ==
  /\ data.method = "POST"
  /\ data.text # ""
  /\ data.group = None \/ data.group \in groups
  /\ data.image # "bad"

upload_to(image) == IF image = None THEN None ELSE "posts/" \o image

\* ------------------------------------------------------------------ views
\* The view without its gate.
new_post_open == FALSE

\* @login_required on new_post: whether the view is gated.
new_post_login_required == TRUE

\* The author taken from the submitted data when it names one.
PayloadAuthor(user, data) == IF data.author # None THEN data.author ELSE user

\* form.instance.author = request.user
NewPostAuthor(user, data) == user

new_post(user, data) ==
  /\ UNCHANGED workers
  /\ req' = Request("new_post", user, "-", 0, "-", NoPage)
  /\ IF new_post_login_required /\ ~is_authenticated(user)
     THEN /\ resp' = LoginRedirect("new_post")
          /\ UNCHANGED <<store, cache>>
     ELSE IF PostFormValid(data)
     THEN /\ nextPostId < MaxPosts
          /\ nextPostId' = nextPostId + 1
          /\ posts' = posts \cup
               {[id |-> nextPostId + 1, author |-> NewPostAuthor(user, data),
                 text |-> data.text, group |-> data.group,
                 image |-> upload_to(data.image), pub_date |-> now]}
          /\ resp' = HttpRedirect("index", "-", 0)
          /\ UNCHANGED <<users, groups, comments, follows, cache>>
     ELSE /\ resp' = HttpRender("new_post.html", NoContext)
          /\ UNCHANGED <<store, cache>>
  /\ UNCHANGED now

\* The post addressed by /<username>/<post_id>/: get_object_or_404(Post,
\* author__username=username, pk=post_id); the empty set stands for Http404.
LookupPost(username, post_id) ==
  {p \in posts : p.author = username /\ p.id = post_id}

\* ModelForm.save() on an existing instance: text and group are taken from the
\* form; the image is replaced only when a file is uploaded; author and
\* pub_date (auto_now_add) are not form fields.
EditedPost(post, data) ==
  [post EXCEPT !.text = data.text, !.group = data.group,
               !.image = IF data.image = None THEN post.image ELSE upload_to(data.image)]

\* A guard that only turns anonymous requesters away.
AnonMayNotEdit(user, post) == ~is_authenticated(user)

\* post_edit's guard: the requester is not the author of the post.
MayNotEdit(user, post) == user # post.author

post_edit(user, username, post_id, data) ==
  /\ UNCHANGED workers
  /\ req' = Request("post_edit", user, username, post_id, "-", NoPage)
  /\ IF LookupPost(username, post_id) = {}
     THEN /\ resp' = Http404
          /\ UNCHANGED <<store, cache>>
     ELSE LET post == CHOOSE p \in LookupPost(username, post_id) : TRUE IN
       IF MayNotEdit(user, post)
       THEN /\ resp' = HttpRedirect("post", username, post_id)
            /\ UNCHANGED <<store, cache>>
       ELSE IF PostFormValid(data)
       THEN /\ posts' = (posts \ {post}) \cup {EditedPost(post, data)}
            /\ resp' = HttpRedirect("post", username, post_id)
            /\ UNCHANGED <<users, groups, comments, follows, nextPostId, cache>>
       ELSE /\ resp' = HttpRender("new_post.html", [NoContext EXCEPT !.post = post_id])
            /\ UNCHANGED <<store, cache>>
  /\ UNCHANGED now

\* The comment signed with the name in the URL, the author of the post.
CommentByPostAuthor(user, username) == username

\* form.instance.author = request.user
CommentAuthor(user, username) == user

\* CommentForm(request.POST or None).is_valid()
CommentFormValid(data) == data.method = "POST" /\ data.text # ""

add_comment(user, username, post_id, data) ==
  /\ UNCHANGED workers
  /\ req' = Request("add_comment", user, username, post_id, "-", NoPage)
  /\ IF ~is_authenticated(user)
     THEN /\ resp' = LoginRedirect("add_comment")
          /\ UNCHANGED <<store, cache>>
     ELSE IF LookupPost(username, post_id) = {}
     THEN /\ resp' = Http404
          /\ UNCHANGED <<store, cache>>
     ELSE /\ IF CommentFormValid(data)
             THEN /\ BagCardinality(comments) < MaxComments
                  /\ comments' = comments (+) SetToBag(
                       {[post |-> post_id, author |-> CommentAuthor(user, username),
                         text |-> data.text,
                         created |-> now]})
             ELSE UNCHANGED comments
          /\ resp' = HttpRedirect("post", username, post_id)
          /\ UNCHANGED <<users, groups, posts, follows, nextPostId, cache>>
  /\ UNCHANGED now

\* ---------------------------------------------------------------- the feeds
\* The list-page cache in front of the global index: one fixed key, a
\* time-to-live, an explicit flush.
CacheHit == cache.set /\ now < cache.expires

CacheStore(content) == [set |-> TRUE, content |-> content, expires |-> now + CacheTTL]

CacheEmpty == [set |-> FALSE, content |-> <<>>, expires |-> 0]

CachedResponse ==
  [status |-> 200, location |-> NoLocation, template |-> "index.html",
   ctx |-> NoContext, content |-> cache.content]

\* Only the posts that are in a group.
IndexGroupedOnly == {p \in posts : p.group # None}

\* Post.objects.all()
IndexPostList == posts

index(user, p) ==
  /\ UNCHANGED workers
  /\ req' = Request("index", user, "-", 0, "-", p)
  /\ IF CacheHit
     THEN /\ resp' = CachedResponse
          /\ UNCHANGED cache
     ELSE \E post_list \in Orderings(IndexPostList) :
          /\ resp' = HttpRender("index.html", Paginate(post_list, p))
          /\ cache' = CacheStore(Render("index.html", Paginate(post_list, p)))
  /\ UNCHANGED <<store, now>>

\* group.posts.all()
GroupPostList(slug) == {p \in posts : p.group = slug}

group_posts(user, slug, p) ==
  /\ UNCHANGED workers
  /\ req' = Request("group_posts", user, "-", 0, slug, p)
  /\ IF slug \notin groups
     THEN resp' = Http404
     ELSE \E post_list \in Orderings(GroupPostList(slug)) :
          resp' = HttpRender("group.html", Paginate(post_list, p))
  /\ UNCHANGED <<store, cache, now>>

\* author.posts.all()
AuthorPostList(author) == {p \in posts : p.author = author}

\* profile's 'following' flag
is_following(user, author) ==
  IF ~is_authenticated(user) THEN FALSE ELSE FollowRows(user, author) > 0

profile(user, username, p) ==
  /\ UNCHANGED workers
  /\ req' = Request("profile", user, username, 0, "-", p)
  /\ IF username \notin users
     THEN resp' = Http404
     ELSE \E post_list \in Orderings(AuthorPostList(username)) :
          resp' = HttpRender("profile.html",
                    [Paginate(post_list, p) EXCEPT !.following = is_following(user, username)])
  /\ UNCHANGED <<store, cache, now>>

\* Every author who is followed by anyone.
FollowedByAnyone(user) == {a \in users : following(a) # {}}

\* User.objects.filter(following__in=request.user.follower.all())
FollowedAuthors(user) == {a \in users : following(a) \cap follower(user) # {}}

\* Post.objects.filter(author__in=authors.all())
FollowPostList(user) == {p \in posts : p.author \in FollowedAuthors(user)}

follow_index(user, p) ==
  /\ UNCHANGED workers
  /\ req' = Request("follow_index", user, "-", 0, "-", p)
  /\ IF ~is_authenticated(user)
     THEN resp' = LoginRedirect("follow_index")
     ELSE \E post_list \in Orderings(FollowPostList(user)) :
          resp' = HttpRender("follow.html", Paginate(post_list, p))
  /\ UNCHANGED <<store, cache, now>>

\* ------------------------------------------------------------- social graph
\* No guard on the target.
MayFollowAnyone(user, author) == TRUE

\* profile_follow's guard on the target: the author is not the requester.
MayFollow(user, author) == author # user

\* A check that never finds the row.
is_exists_blind(user, author) == TRUE

\* is_exists = (Follow.objects.filter(user=..., author=...).count() == 0): true
\* when NO such row exists.
is_exists(user, author) == FollowRows(user, author) = 0

profile_follow(user, username) ==
  /\ UNCHANGED workers
  /\ req' = Request("profile_follow", user, username, 0, "-", NoPage)
  /\ IF ~is_authenticated(user)
     THEN /\ resp' = LoginRedirect("profile_follow")
          /\ UNCHANGED follows
     ELSE IF username \notin users
     THEN /\ resp' = Http404
          /\ UNCHANGED follows
     ELSE /\ IF MayFollow(user, username) /\ is_exists(user, username)
             THEN follows' = follows (+) SetToBag({<<user, username>>})
             ELSE UNCHANGED follows
          /\ resp' = HttpRedirect("profile", username, 0)
  /\ UNCHANGED <<users, groups, posts, comments, nextPostId, cache, now>>

\* Follow.objects.filter(user=user, author=author).delete()
DeleteFollowRows(user, author) ==
  [f \in BagToSet(follows) \ {<<user, author>>} |-> follows[f]]

profile_unfollow(user, username) ==
  /\ UNCHANGED workers
  /\ req' = Request("profile_unfollow", user, username, 0, "-", NoPage)
  /\ IF ~is_authenticated(user)
     THEN /\ resp' = LoginRedirect("profile_unfollow")
          /\ UNCHANGED follows
     ELSE IF username \notin users
     THEN /\ resp' = Http404
          /\ UNCHANGED follows
     ELSE /\ IF username # user /\ ~is_exists(user, username)
             THEN follows' = DeleteFollowRows(user, username)
             ELSE UNCHANGED follows
          /\ resp' = HttpRedirect("profile", username, 0)
  /\ UNCHANGED <<users, groups, posts, comments, nextPostId, cache, now>>

\* ------------------------------------------------------- referential actions
\* The reference left as it was.
GroupKept(post, g) == post

\* Post.group: on_delete=SET_NULL.
GroupDeleted(post, g) == IF post.group = g THEN [post EXCEPT !.group = None] ELSE post

DeleteGroup(g) ==
  /\ UNCHANGED workers
  /\ g \in groups
  /\ groups' = groups \ {g}
  /\ posts' = {GroupDeleted(p, g) : p \in posts}
  /\ req' = Request("delete_group", Anon, "-", 0, g, NoPage)
  /\ UNCHANGED <<users, comments, follows, nextPostId, cache, now, resp>>

\* Post.author: on_delete=CASCADE.
PostsAfterUserDelete(u) == {p \in posts : p.author # u}

\* Comment.post and Comment.author: on_delete=CASCADE.
CommentSurvives(c, u) ==
  /\ c.author # u
  /\ \E p \in PostsAfterUserDelete(u) : p.id = c.post

\* The Follow rows of a deleted user go with the user.
FollowSurvives(f, u) == f[1] # u /\ f[2] # u

DeleteUser(u) ==
  /\ UNCHANGED workers
  /\ u \in users
  /\ users' = users \ {u}
  /\ posts' = PostsAfterUserDelete(u)
  /\ comments' = [c \in {d \in BagToSet(comments) : CommentSurvives(d, u)} |-> comments[c]]
  /\ follows' = [f \in {e \in BagToSet(follows) : FollowSurvives(e, u)} |-> follows[f]]
  /\ req' = Request("delete_user", Anon, u, 0, "-", NoPage)
  /\ UNCHANGED <<groups, nextPostId, cache, now, resp>>

\* cache.clear()
CacheClear ==
  /\ UNCHANGED workers
  /\ cache' = CacheEmpty
  /\ req' = Request("cache_clear", Anon, "-", 0, "-", NoPage)
  /\ UNCHANGED <<store, now, resp>>

\* The clock the timestamps and the cache's time-to-live are read from.
Tick ==
  /\ UNCHANGED workers
  /\ now < MaxTime
  /\ now' = now + 1
  /\ req' = Request("tick", Anon, "-", 0, "-", NoPage)
  /\ UNCHANGED <<store, cache, resp>>

\* A request handler at rest: no request of its own in progress.
Idle == [pc |-> "idle", user |-> Anon, author |-> "-", is_exists |-> FALSE]

\* ------------------------------------------------------------------ inputs
Requesters == users \cup {Anon}

PostIds == 1..MaxPosts

\* Form submissions: a GET, and POSTs with a blank or a real text, with or
\* without a group, with no file or a file that is not an image.
PostData ==
  [method : {"POST"}, text : Texts \cup {""}, group : Groups \cup {None},
   image : {None, "bad"}, author : {"u2"}] \cup {NoData}

\* Two valid posts: one with a group and an uploaded image, one with neither.
SimplePost ==
  {[method |-> "POST", text |-> "a", group |-> "g1", image |-> "img", author |-> None],
   [method |-> "POST", text |-> "a", group |-> None, image |-> None, author |-> None]}

CommentData ==
  {[NoData EXCEPT !.method = "POST", !.text = "a"], [NoData EXCEPT !.method = "POST"], NoData}

PageParams ==
  {NoPage, [kind |-> "str", n |-> 0]} \cup [kind : {"int"}, n : -1..4]

FeedPages == {NoPage, [kind |-> "int", n |-> 0], [kind |-> "int", n |-> 2]}

Init ==
  /\ users = Users
  /\ groups = Groups
  /\ posts = {}
  /\ comments = EmptyBag
  /\ follows = EmptyBag
  /\ nextPostId = 0
  /\ now = 0
  /\ cache = CacheEmpty
  /\ req = Request("-", Anon, "-", 0, "-", NoPage)
  /\ resp = Http404
  /\ workers = [w \in 1..NumWorkers |-> Idle]

\* Posting and editing.
Next ==
  \/ \E u \in Requesters, d \in PostData : new_post(u, d)
  \/ \E u \in Requesters, a \in Users, i \in PostIds, d \in PostData : post_edit(u, a, i, d)

Spec == Init /\ [][Next]_vars

\* The social graph and the following feed it drives.
FeedNext ==
  \/ \E u \in Requesters, d \in SimplePost : new_post(u, d)
  \/ \E u \in Requesters, a \in Users : profile_follow(u, a)
  \/ \E u \in Requesters, a \in Users : profile_unfollow(u, a)
  \/ \E u \in Requesters, a \in Users, pg \in FeedPages : profile(u, a, pg)
  \/ \E u \in Requesters, pg \in FeedPages : follow_index(u, pg)
  \/ \E u \in Users : DeleteUser(u)

FeedSpec == Init /\ [][FeedNext]_vars

\* The order of the feeds as the clock advances between posts, or does not.
OrderNext ==
  \/ \E u \in Requesters, d \in SimplePost : new_post(u, d)
  \/ \E u \in Requesters, a \in Users : profile(u, a, NoPage)
  \/ \E u \in Requesters, g \in Groups : group_posts(u, g, NoPage)
  \/ Tick

OrderSpec == Init /\ [][OrderNext]_vars

\* Pagination over feeds of every length up to MaxFeed: the store holds n
\* posts of u1 in g1, published one per clock tick, and u2 follows u1.
FeedOf(n) ==
  {[id |-> i, author |-> "u1", text |-> "a", group |-> "g1", image |-> None,
    pub_date |-> i] : i \in 1..n}

PageInit ==
  \E n \in 0..MaxFeed :
    /\ users = Users
    /\ groups = Groups
    /\ posts = FeedOf(n)
    /\ comments = EmptyBag
    /\ follows = SetToBag({<<"u2", "u1">>})
    /\ nextPostId = n
    /\ now = n
    /\ cache = CacheEmpty
    /\ req = Request("-", Anon, "-", 0, "-", NoPage)
    /\ resp = Http404
    /\ workers = [w \in 1..NumWorkers |-> Idle]

PageNext ==
  \/ \E pg \in PageParams : index("u2", pg)
  \/ \E g \in Groups, pg \in PageParams : group_posts("u2", g, pg)
  \/ \E a \in Users, pg \in PageParams : profile("u2", a, pg)
  \/ \E pg \in PageParams : follow_index("u2", pg)
  \/ CacheClear

PageSpec == PageInit /\ [][PageNext]_vars

\* The global index behind its cache.
CacheNext ==
  \/ \E u \in Requesters, d \in SimplePost : new_post(u, d)
  \/ \E u \in Requesters, pg \in FeedPages : index(u, pg)
  \/ CacheClear
  \/ Tick

CacheSpec == Init /\ [][CacheNext]_vars

\* Deletion of groups and users.
DeleteNext ==
  \/ \E u \in Requesters, d \in SimplePost : new_post(u, d)
  \/ \E u \in Requesters, a \in Users, i \in PostIds, d \in CommentData :
        add_comment(u, a, i, d)
  \/ \E g \in Groups : DeleteGroup(g)
  \/ \E u \in Users : DeleteUser(u)

DeleteSpec == Init /\ [][DeleteNext]_vars

\* Posts and the comments under them.
CommentNext ==
  \/ \E u \in Users, d \in {p \in SimplePost : p.group = None} : new_post(u, d)
  \/ \E u \in Requesters, a \in Users, i \in PostIds, d \in CommentData :
        add_comment(u, a, i, d)

CommentSpec == Init /\ [][CommentNext]_vars

\* ------------------------------------------------------ concurrent requests
\* profile_follow and profile_unfollow as the database sees them when several
\* request handlers run at once: the queries up to the count are one step, the
\* insert or delete that follows is another, and nothing holds a lock between
\* the two.
Started(op, user, username) ==
  [pc |-> op, user |-> user, author |-> username, is_exists |-> is_exists(user, username)]

\* profile_follow up to the count query.
follow_check(w, user, username) ==
  /\ workers[w].pc = "idle"
  /\ IF ~is_authenticated(user)
     THEN /\ resp' = LoginRedirect("profile_follow")
          /\ req' = Request("profile_follow", user, username, 0, "-", NoPage)
          /\ UNCHANGED workers
     ELSE IF username \notin users
     THEN /\ resp' = Http404
          /\ req' = Request("profile_follow", user, username, 0, "-", NoPage)
          /\ UNCHANGED workers
     ELSE IF ~MayFollow(user, username)
     THEN /\ resp' = HttpRedirect("profile", username, 0)
          /\ req' = Request("profile_follow", user, username, 0, "-", NoPage)
          /\ UNCHANGED workers
     ELSE /\ workers' = [workers EXCEPT ![w] = Started("follow", user, username)]
          /\ UNCHANGED <<req, resp>>
  /\ UNCHANGED <<store, cache, now>>

\* profile_follow from the test of is_exists on: follow.save() and the redirect.
follow_save(w) ==
  /\ workers[w].pc = "follow"
  /\ IF workers[w].is_exists
     THEN follows' = follows (+) SetToBag({<<workers[w].user, workers[w].author>>})
     ELSE UNCHANGED follows
  /\ resp' = HttpRedirect("profile", workers[w].author, 0)
  /\ req' = Request("profile_follow", workers[w].user, workers[w].author, 0, "-", NoPage)
  /\ workers' = [workers EXCEPT ![w] = Idle]
  /\ UNCHANGED <<users, groups, posts, comments, nextPostId, cache, now>>

\* profile_unfollow up to the count query.
unfollow_check(w, user, username) ==
  /\ workers[w].pc = "idle"
  /\ IF ~is_authenticated(user)
     THEN /\ resp' = LoginRedirect("profile_unfollow")
          /\ req' = Request("profile_unfollow", user, username, 0, "-", NoPage)
          /\ UNCHANGED workers
     ELSE IF username \notin users
     THEN /\ resp' = Http404
          /\ req' = Request("profile_unfollow", user, username, 0, "-", NoPage)
          /\ UNCHANGED workers
     ELSE IF username = user
     THEN /\ resp' = HttpRedirect("profile", username, 0)
          /\ req' = Request("profile_unfollow", user, username, 0, "-", NoPage)
          /\ UNCHANGED workers
     ELSE /\ workers' = [workers EXCEPT ![w] = Started("unfollow", user, username)]
          /\ UNCHANGED <<req, resp>>
  /\ UNCHANGED <<store, cache, now>>

\* profile_unfollow from the test of is_exists on: the delete and the redirect.
unfollow_delete(w) ==
  /\ workers[w].pc = "unfollow"
  /\ IF ~workers[w].is_exists
     THEN follows' = DeleteFollowRows(workers[w].user, workers[w].author)
     ELSE UNCHANGED follows
  /\ resp' = HttpRedirect("profile", workers[w].author, 0)
  /\ req' = Request("profile_unfollow", workers[w].user, workers[w].author, 0, "-", NoPage)
  /\ workers' = [workers EXCEPT ![w] = Idle]
  /\ UNCHANGED <<users, groups, posts, comments, nextPostId, cache, now>>

Workers == 1..NumWorkers

ConcNext ==
  \/ \E w \in Workers, u \in Requesters, a \in Users : follow_check(w, u, a)
  \/ \E w \in Workers : follow_save(w)
  \/ \E w \in Workers, u \in Requesters, a \in Users : unfollow_check(w, u, a)
  \/ \E w \in Workers : unfollow_delete(w)

ConcSpec == Init /\ [][ConcNext]_vars

\* ------------------------------------------------------------------ claims
Range(seq) == {seq[i] : i \in DOMAIN seq}

\* following_set(A): the authors A has a Follow edge to.
following_set(a) == {b \in Users : <<a, b>> \in BagToSet(follows)}

\* C1: for distinct users A and B, is_following(A, B) is false before any follow
\* action (it is false initially and only profile_follow(A, B) makes it true),
\* true right after profile_follow(A, B) with exactly one Follow row (A, B),
\* also when the follow is repeated, and false right after profile_unfollow(A, B).
C1_FollowLifecycle ==
  /\ \A a, b \in Users : ~is_following(a, b)
  /\ [][\A a, b \in Users : a # b =>
         /\ (~is_following(a, b) /\ is_following(a, b)') =>
              (req'.view = "profile_follow" /\ req'.user = a /\ req'.username = b)
         /\ (req'.view = "profile_follow" /\ req'.user = a /\ req'.username = b
               /\ b \in users) =>
              (is_following(a, b)' /\ FollowRows(a, b)' = 1)
         /\ (req'.view = "profile_unfollow" /\ req'.user = a /\ req'.username = b
               /\ b \in users) =>
              (~is_following(a, b)' /\ FollowRows(a, b)' = 0)]_vars

C1_Witness ==
  /\ req.view = "profile_follow" /\ req.user = "u1" /\ req.username = "u2"
  /\ resp = HttpRedirect("profile", "u2", 0)
  /\ is_following("u1", "u2") /\ FollowRows("u1", "u2") = 1

\* C3: in every reachable state the post list follow_index builds for a user A
\* is the set of posts whose author is in following_set(A); and after
\* follow_index answers an authenticated user A, the feed holds a post exactly
\* when its author is in following_set(A), each such post once; when A follows
\* nobody the feed is empty; the answer is a 200 in both cases.
C3_FollowingFeed ==
  /\ \A a \in users :
       FollowPostList(a) = {p \in posts : p.author \in following_set(a)}
  /\ (req.view = "follow_index" /\ is_authenticated(req.user)) =>
    /\ resp.status = 200
    /\ Range(resp.ctx.object_list) = {p \in posts : p.author \in following_set(req.user)}
    /\ resp.ctx.count = Cardinality(Range(resp.ctx.object_list))
    /\ (following_set(req.user) = {} => resp.ctx.count = 0 /\ resp.ctx.page = <<>>)

C3_Witness ==
  /\ req.view = "follow_index" /\ req.user = "u1"
  /\ following_set("u1") = {"u2"}
  /\ resp.ctx.count = 1
  /\ \E p \in posts : p.author = "u1"

C3_WitnessEmpty ==
  /\ req.view = "follow_index" /\ req.user = "u1"
  /\ following_set("u1") = {} /\ posts # {}
  /\ resp.status = 200 /\ resp.ctx.count = 0

\* C8: no reachable Follow row has its follower as its target, and a
\* profile_follow request aimed at the requester leaves the Follow rows as they
\* are and redirects to the profile.
C8_NoSelfFollow ==
  /\ [](\A u \in Users : FollowRows(u, u) = 0)
  /\ [][\A u \in Users :
         (req'.view = "profile_follow" /\ req'.user = u /\ req'.username = u) =>
           (follows' = follows /\ resp' = HttpRedirect("profile", u, 0))]_vars

C8_Witness ==
  /\ req.view = "profile_follow" /\ req.user = "u1" /\ req.username = "u1"
  /\ resp = HttpRedirect("profile", "u1", 0)
  /\ follows = SetToBag({<<"u2", "u1">>})

\* C4: a new_post submission by an anonymous requester, whatever it submits,
\* leaves the set of posts as it is and is answered by a redirect to the login
\* entry point with next=<new_post>.
C4_AnonNewPost ==
  [][(req'.view = "new_post" /\ ~is_authenticated(req'.user)) =>
       (posts' = posts /\ nextPostId' = nextPostId
        /\ resp'.status = 302 /\ resp'.location.name = "login"
        /\ resp'.location.next = "new_post")]_vars

C4_Witness ==
  /\ req.view = "new_post" /\ req.user = Anon
  /\ resp.status = 302 /\ resp.location.name = "login" /\ resp.location.next = "new_post"
  /\ Cardinality(posts) = 1

\* C5: a post_edit request that addresses an existing post and comes from anyone
\* but its author (another user or an anonymous requester), whatever it
\* submits, leaves every post as it is and is answered by a redirect to the
\* detail view of that post.
C5_NonAuthorEdit ==
  [][(req'.view = "post_edit" /\ LookupPost(req'.username, req'.post_id) # {}
       /\ req'.user # req'.username) =>
       (posts' = posts
        /\ resp' = HttpRedirect("post", req'.username, req'.post_id))]_vars

C5_Witness ==
  /\ req.view = "post_edit" /\ req.user = "u2" /\ req.username = "u1"
  /\ LookupPost("u1", req.post_id) # {}
  /\ resp = HttpRedirect("post", "u1", req.post_id)

C5_WitnessAnon ==
  /\ req.view = "post_edit" /\ req.user = Anon /\ req.username = "u1"
  /\ LookupPost("u1", req.post_id) # {}
  /\ resp = HttpRedirect("post", "u1", req.post_id)

\* C7: a valid submission (text, optional group) to new_post by an authenticated
\* user adds exactly one post, whose author is the requester whatever author
\* the submitted data names, whose text and group are the submitted ones, and
\* the global feed has exactly one more item.
C7_NewPost ==
  [][\A u \in Users, d \in PostData :
       (new_post(u, d) /\ u \in users /\ PostFormValid(d)) =>
         /\ Cardinality(posts' \ posts) = 1
         /\ posts \subseteq posts'
         /\ \A p \in posts' \ posts :
              p.author = u /\ p.text = d.text /\ p.group = d.group
         /\ Cardinality(IndexPostList') = Cardinality(IndexPostList) + 1]_vars

C7_Witness ==
  /\ req.view = "new_post" /\ req.user = "u1"
  /\ resp = HttpRedirect("index", "-", 0)
  /\ \E p \in posts : p.id = nextPostId /\ p.author = "u1" /\ p.group = "g1" /\ p.text = "b"
  /\ Cardinality(posts) = 2

Feeds == {"index", "group_posts", "profile", "follow_index"}

\* A feed view ran and rendered its page (not a cached document).
FeedServed == req.view \in Feeds /\ resp.status = 200 /\ resp.ctx.num_pages > 0

\* C2: a request of the global index inside the time-to-live of a populated,
\* unflushed cache returns the cached document as it is (so it equals the
\* previous index answer, and a post created meanwhile does not show), creating
\* a post does not touch the cache, and a request after a flush or the expiry
\* lists every post that exists then and repopulates the cache.
C2_IndexCache ==
  /\ [](req.view = "index" => (cache.set /\ resp.content = cache.content))
  /\ [][/\ (req'.view = "index" /\ CacheHit) =>
            (resp'.status = 200 /\ resp'.content = cache.content /\ cache' = cache)
        /\ (req'.view = "index" /\ ~CacheHit) =>
            (/\ resp'.status = 200
             /\ Range(resp'.ctx.object_list) = posts
             /\ resp'.ctx.count = Cardinality(posts)
             /\ Range(resp'.ctx.page) = posts
             /\ resp'.content = Render("index.html", resp'.ctx))
        /\ (req'.view = "new_post") => cache' = cache]_vars

C2_Witness ==
  /\ req.view = "index" /\ resp.ctx = NoContext /\ CacheHit
  /\ resp.content = cache.content
  /\ Cardinality(posts) = 2 /\ Len(resp.content[2]) = 1

C2_WitnessFlush ==
  /\ req.view = "index" /\ resp.ctx.count = 2 /\ now = 0
  /\ Range(resp.ctx.page) = posts

\* C6 as claimed: a page number of 0 or below is answered by page 1, a page
\* number above the page count by the last page, and neither is an error.
C6_ClampsToFirst ==
  /\ req.view \in Feeds => resp.status = 200
  /\ FeedServed =>
       /\ (req.page.kind = "int" /\ req.page.n < 1) => resp.ctx.number = 1
       /\ (req.page.kind = "int" /\ req.page.n > resp.ctx.num_pages) =>
            resp.ctx.number = resp.ctx.num_pages

\* C6 as amended: with 10 posts to a page, a page number of 0 or below and a
\* page number above the page count are both answered by the LAST page, a
\* missing or non-integer page by page 1, a number in range by that page; the
\* page served is the matching slice of the feed, and no request is an error.
C6_PageClamps ==
  /\ req.view \in Feeds => resp.status = 200
  /\ FeedServed =>
       LET c == resp.ctx IN
       /\ c.count = Len(c.object_list)
       /\ c.num_pages >= 1
       /\ c.num_pages * 10 >= c.count
       /\ (c.num_pages - 1) * 10 < c.count \/ c.count = 0
       /\ (req.page.kind = "int" /\ req.page.n < 1) => c.number = c.num_pages
       /\ (req.page.kind = "int" /\ req.page.n > c.num_pages) => c.number = c.num_pages
       /\ (req.page.kind = "int" /\ req.page.n >= 1 /\ req.page.n <= c.num_pages) =>
            c.number = req.page.n
       /\ req.page.kind # "int" => c.number = 1
       /\ Len(c.page) = (IF c.number < c.num_pages THEN 10 ELSE c.count - (c.number - 1) * 10)
       /\ \A i \in DOMAIN c.page : c.page[i] = c.object_list[(c.number - 1) * 10 + i]

C6_Witness ==
  /\ FeedServed /\ req.view = "follow_index"
  /\ req.page = [kind |-> "int", n |-> 0]
  /\ resp.ctx.count = 21 /\ resp.ctx.num_pages = 3 /\ resp.ctx.number = 3
  /\ Len(resp.ctx.page) = 1

\* C9: deleting a group deletes no post and leaves each of its posts with a null
\* group (every other field and every other post as it was); deleting a user
\* leaves no post of that user, no comment on a post of that user and no comment
\* of that user.
C9_OnDelete ==
  [][/\ \A g \in Groups : (req'.view = "delete_group" /\ req'.slug = g) =>
          /\ {p.id : p \in posts'} = {p.id : p \in posts}
          /\ Cardinality(posts') = Cardinality(posts)
          /\ \A p \in posts :
               IF p.group = g THEN [p EXCEPT !.group = None] \in posts' ELSE p \in posts'
          /\ comments' = comments
     /\ \A u \in Users : (req'.view = "delete_user" /\ req'.username = u) =>
          /\ \A p \in posts' : p.author # u
          /\ \A c \in BagToSet(comments') :
               /\ c.author # u
               /\ \A p \in posts : p.author = u => c.post # p.id]_vars

C9_Witness ==
  /\ req.view = "delete_group" /\ users = {"u1"}
  /\ nextPostId = 2 /\ Cardinality(posts) = 1
  /\ \E p \in posts : p.image = "posts/img" /\ p.group = None

\* C10: every feed is in descending order of pub_date with ties broken by
\* insertion order, so that the order is a function of the data: a feed
\* request repeated on an unchanged store returns the posts in the same order.
C10_TotalOrder ==
  /\ [](FeedServed =>
         \A i, j \in DOMAIN resp.ctx.object_list :
           i < j => resp.ctx.object_list[i].pub_date >= resp.ctx.object_list[j].pub_date)
  /\ [][(FeedServed /\ req' = req /\ resp'.status = 200 /\ UNCHANGED store) =>
         resp'.ctx.object_list = resp.ctx.object_list]_vars

\* C11: add_comment on an existing post: a valid text from an authenticated user
\* adds exactly one comment, whose author is the requester and whose post is
\* the post addressed; an anonymous requester or an invalid form adds none; an
\* authenticated request is always answered by a redirect to the detail view
\* of the post.
C11_AddComment ==
  [][\A u \in Users \cup {Anon}, a \in Users, i \in PostIds, d \in CommentData :
       (req'.view = "add_comment" /\ add_comment(u, a, i, d) /\ LookupPost(a, i) # {}) =>
         /\ (is_authenticated(u) /\ CommentFormValid(d)) =>
              /\ BagCardinality(comments') = BagCardinality(comments) + 1
              /\ \E c \in BagToSet(comments') :
                   /\ comments' = comments (+) SetToBag({c})
                   /\ c.author = u /\ c.post = i /\ c.text = d.text
         /\ (~is_authenticated(u) \/ ~CommentFormValid(d)) => comments' = comments
         /\ is_authenticated(u) => resp' = HttpRedirect("post", a, i)
         /\ posts' = posts]_vars

C11_Witness ==
  /\ req.view = "add_comment" /\ req.user = "u2" /\ req.username = "u1"
  /\ resp = HttpRedirect("post", "u1", req.post_id)
  /\ BagCardinality(comments) = 1
  /\ \E c \in BagToSet(comments) : c.author = "u2" /\ c.post = req.post_id

\* C12: under every interleaving of concurrent profile_follow and
\* profile_unfollow requests, with no locking, there is at most one Follow row
\* for each (follower, target) pair.
C12_AtMostOneEdge == \A a, b \in Users : FollowRows(a, b) <= 1
====
